---- MODULE Spec2Model ----
(***************************************************************************)
(* State-machine model of the process supervisor in server.py: the HTTP    *)
(* control surface (/start-bot, /stop-bot, /bot-logs), the two module-level *)
(* tables active_processes and process_logs, the log reader threads, the   *)
(* cleanup hook, and the part of the operating system the handlers talk to  *)
(* (worker processes, their pipes, the worker port, signals).              *)
(*                                                                         *)
(* socketserver.TCPServer handles one request at a time, so the handlers   *)
(* never interleave with each other; they do interleave with the workers,  *)
(* the reader threads and the clock where they block for the worker        *)
(* (time.sleep(0.5) before the poll, process.wait).  pc is the position of *)
(* the single server thread; in "respond" the handler has written its      *)
(* response and is about to return, and that state is observed before      *)
(* anything else moves.  The model follows the non-win32 branches.         *)
(*                                                                         *)
(* The second half models the objects of a worker (bot.py): the            *)
(* SessionTimeoutHandler with the pipeline task it queues frames into, the *)
(* TranslationProcessor and the TranscriptHandler.  Each has a             *)
(* specification of its own, in which the supervisor stays as constructed.  *)
(***************************************************************************)
EXTENDS Integers, Sequences, FiniteSets, TLC

\* ------------------------------------------------------------- bounds
MaxPid == 2        \* the operating system hands out the pids 1..MaxPid
MaxLines == 2      \* lines written by all workers together in one run
MaxTimeouts == 2   \* on_session_timeout notifications in one session
MaxFrames == 2     \* frames handed to the TranslationProcessor
MaxMessages == 2   \* transcript messages in all update frames together
MaxClients == 3    \* client connections to the control port in one run

\* ------------------------------------------------ program constants
WorkerPort == 8765
StopTimeout == 3
SIGTERM == 15
SIGKILL == 9
NoPid == -1        \* Python None for a pid (falsy, never a key)
NoPort == 0        \* Python None for force_port (falsy)
GraceDelay == 3    \* asyncio.sleep(3) in _end_call

Pids == 1..MaxPid
Timeouts == 1..MaxTimeouts
Clients == 1..MaxClients
ForeignPid == MaxPid + 1  \* a process this server did not spawn
Streams == {"stdout", "stderr"}
Artifacts == {"creds.json", ".env"}
Tools == {"lsof", "pkill", "none"}  \* lsof installed; only pkill; neither
Whitespace == {" ", "\n"}

VARIABLES
    pc,                \* position of the server thread
    req,               \* the request being handled and what it found on disk
    resp,              \* the response the handler wrote
    cur,               \* _start_bot's local pid / process
    waited,            \* seconds process.wait(timeout=3) has waited so far
    sent,              \* os.kill calls made for the current request
    active_processes,  \* keys of the dict active_processes
    process_logs,      \* the dict process_logs: pid -> {stdout, stderr}
    proc,              \* operating system: state of the process with each pid
    pipe,              \* operating system: unread content of each worker pipe
    reading,           \* whether the read_output thread of each pipe runs
    nlines,            \* lines written so far
    port,              \* pid of the worker listening on the worker port
    latest,            \* history: pid of the most recently started worker
    \* ---- server.py: the connections to the control port
    handler,           \* where each client's request is: waiting, or the
                       \* place its handler has reached
    \* ---- bot.py: the session timeout handling
    queued,            \* every frame put into the PipelineTask's queue, in order
    consumed,          \* how many of them the pipeline has processed
    pipeline,          \* "running", "ended" (EndFrame processed), "closed"
    ntimeouts,         \* on_session_timeout notifications delivered so far
    end_call,          \* state of the _end_call task of each notification
    sleep_left,        \* seconds its asyncio.sleep(3) still has to run
    escaped,           \* an exception has left on_session_timeout
    \* ---- bot.py: TranslationProcessor and TranscriptHandler
    in_language,       \* the configured source language
    out_language,      \* the configured target language
    tp_in,             \* history: the frames process_frame was called with
    tp_out,            \* the frames process_frame pushed, in order
    messages,          \* TranscriptHandler.messages
    batches,           \* history: frame.messages of every update, in order
    logged             \* the message dicts on_transcript_update built

servervars == <<pc, req, resp, cur, waited, sent, active_processes,
                process_logs, proc, pipe, reading, nlines, port, latest>>
connvars == <<handler>>
sessionvars == <<queued, consumed, pipeline, ntimeouts, end_call, sleep_left,
                 escaped>>
langvars == <<in_language, out_language>>
stagevars == <<tp_in, tp_out>>
transcriptvars == <<messages, batches, logged>>
botvars == <<sessionvars, langvars, stagevars, transcriptvars>>

vars == <<servervars, connvars, botvars>>

\* ------------------------------------------------------------ helpers
NoReq == [op |-> "none"]
NoResp == [op |-> "none"]
EmptyLog == [stdout |-> <<>>, stderr |-> <<>>]

Max(S) == CHOOSE x \in S : \A y \in S : y <= x

\* Python truthiness of a pid taken from the JSON body: None and 0 are falsy.
Falsy(x) == x = NoPid \/ x = 0

\* The ids a client may send: every pid, 0, or none at all.
RequestPids == Pids \cup {0, NoPid}

\* The n-th line written, as readline returns it: characters up to and
\* including the newline.  Odd lines carry leading blanks, even lines
\* trailing blanks.
LineChar(n) == <<"a", "b", "c", "d">>[((n - 1) % 4) + 1]
RawLine(n) == IF n % 2 = 1 THEN <<" ", LineChar(n), "\n">>
                           ELSE <<LineChar(n), " ", "\n">>

\* str.strip(): drop leading and trailing whitespace.
RECURSIVE LStrip(_)
LStrip(s) == IF s # <<>> /\ Head(s) \in Whitespace THEN LStrip(Tail(s)) ELSE s
RECURSIVE RStrip(_)
RStrip(s) == IF s # <<>> /\ s[Len(s)] \in Whitespace
             THEN RStrip(SubSeq(s, 1, Len(s) - 1)) ELSE s
Strip(s) == RStrip(LStrip(s))

RECURSIVE Flatten(_)
Flatten(ls) == IF ls = <<>> THEN <<>> ELSE Head(ls) \o Flatten(Tail(ls))

Alive(p) == proc[p] = "alive"
Gone(p) == proc[p] = "none"       \* no process has this pid (never, or reaped)
\* "zombie": the process has exited and has not been waited for.

\* Popen.returncode of an exited child: its exit status, or minus the signal
\* that ended it.
ReturnCodes == {0, 1, 0 - SIGTERM, 0 - SIGKILL}

\* The processes that may be holding the worker port when a handler looks:
\* the worker that bound it, else nobody or a process this server did not
\* spawn.
Holders == IF port # NoPid THEN {port} ELSE {NoPid, ForeignPid}

\* is_port_in_use(8765), lines 98-102, with holder h.
is_port_in_use(h) == h # NoPid

TypeOK ==
    /\ pc \in {"idle", "start_poll", "stop_wait", "respond", "shutdown"}
    /\ cur \in Pids \cup {NoPid}
    /\ waited \in 0..StopTimeout
    /\ active_processes \subseteq Pids
    /\ DOMAIN process_logs \subseteq Pids
    /\ proc \in [Pids -> {"none", "alive", "zombie"}]
    /\ reading \in [Pids -> [Streams -> BOOLEAN]]
    /\ nlines \in 0..MaxLines
    /\ port \in Pids \cup {NoPid}
    /\ latest \in Pids \cup {NoPid}
    /\ consumed \in 0..Len(queued)
    /\ pipeline \in {"running", "ended", "closed"}
    /\ ntimeouts \in 0..MaxTimeouts
    /\ end_call \in [Timeouts -> {"none", "sleeping", "done", "failed",
                                   "cancelled"}]
    /\ sleep_left \in [Timeouts -> 0..GraceDelay]
    /\ escaped \in BOOLEAN
    /\ handler \in [Clients -> {"none", "queued", "start_check",
                                 "start_poll", "stop_signal", "stop_wait",
                                 "logs", "closed"}]
    /\ Len(tp_out) = Len(tp_in)
    /\ Len(logged) = Len(messages)

\* The module-level tables and the operating system when main() starts.
ServerInit ==
    /\ pc = "idle"
    /\ req = NoReq
    /\ resp = NoResp
    /\ cur = NoPid
    /\ waited = 0
    /\ sent = <<>>
    /\ active_processes = {}
    /\ process_logs = <<>>
    /\ proc = [p \in Pids |-> "none"]
    /\ pipe = [p \in Pids |-> [s \in Streams |-> <<>>]]
    /\ reading = [p \in Pids |-> [s \in Streams |-> FALSE]]
    /\ nlines = 0
    /\ port = NoPid
    /\ latest = NoPid

\* Line 348: the listening socket of the control port, nobody connected.
ConnInit == handler = [c \in Clients |-> "none"]

\* bot.py, main(): a PipelineTask nothing has been queued into, no timeout yet.
SessionInit ==
    /\ queued = <<>>
    /\ consumed = 0
    /\ pipeline = "running"
    /\ ntimeouts = 0
    /\ end_call = [n \in Timeouts |-> "none"]
    /\ sleep_left = [n \in Timeouts |-> 0]
    /\ escaped = FALSE

\* bot.py, lines 165-166: the languages main() configures.
LanguagesInit ==
    /\ in_language = "Bengali"
    /\ out_language = "English"

\* A TranslationProcessor that has not been given a frame yet.
StageInit ==
    /\ tp_in = <<>>
    /\ tp_out = <<>>

\* bot.py, line 95: self.messages = [].
TranscriptInit ==
    /\ messages = <<>>
    /\ batches = <<>>
    /\ logged = <<>>

Init ==
    /\ ServerInit
    /\ ConnInit
    /\ SessionInit
    /\ LanguagesInit
    /\ StageInit
    /\ TranscriptInit

\* ------------------------------------------- the operating system side
srvvars == <<pc, req, resp, cur, waited, sent, active_processes, latest>>

\* The server is up and not in the instant between response and return.
Serving == pc \in {"idle", "start_poll", "stop_wait"}

\* A running worker writes one more line to one of its two streams.
WorkerWrite(p, s) ==
    /\ Serving
    /\ Alive(p)
    /\ nlines < MaxLines
    /\ nlines' = nlines + 1
    /\ pipe' = [pipe EXCEPT ![p][s] = Append(@, RawLine(nlines + 1))]
    /\ UNCHANGED <<srvvars, process_logs, proc, reading, port>>
    /\ UNCHANGED <<connvars, botvars>>

\* bot.py binds the worker port (WebsocketServerTransport, port=8765).
WorkerBind(p) ==
    /\ Serving
    /\ Alive(p)
    /\ port = NoPid
    /\ port' = p
    /\ UNCHANGED <<srvvars, process_logs, proc, pipe, reading, nlines>>
    /\ UNCHANGED <<connvars, botvars>>

\* A worker exits by itself (crash, failed bind, handled signal, end of run).
WorkerExit(p) ==
    /\ Serving
    /\ Alive(p)
    /\ proc' = [proc EXCEPT ![p] = "zombie"]
    /\ port' = IF port = p THEN NoPid ELSE port
    /\ UNCHANGED <<srvvars, process_logs, pipe, reading, nlines>>
    /\ UNCHANGED <<connvars, botvars>>

\* read_output, lines 162-164: readline returned a line.
ReadLine(p, s) ==
    /\ Serving
    /\ reading[p][s]
    /\ pipe[p][s] # <<>>
    /\ pipe' = [pipe EXCEPT ![p][s] = Tail(@)]
    /\ process_logs' =
         IF p \in DOMAIN process_logs
         THEN [process_logs EXCEPT ![p][s] = Append(@, Strip(Head(pipe[p][s])))]
         ELSE process_logs
    /\ UNCHANGED <<srvvars, proc, reading, nlines, port>>
    /\ UNCHANGED <<connvars, botvars>>

\* read_output, line 165: readline returned '' (write end closed), pipe.close().
ReadEOF(p, s) ==
    /\ Serving
    /\ reading[p][s]
    /\ pipe[p][s] = <<>>
    /\ ~Alive(p)
    /\ reading' = [reading EXCEPT ![p][s] = FALSE]
    /\ UNCHANGED <<srvvars, process_logs, proc, pipe, nlines, port>>
    /\ UNCHANGED <<connvars, botvars>>

\* One second of process.wait(timeout=3) passes with the child still running.
Tick ==
    /\ pc = "stop_wait"
    /\ Alive(req.pid)
    /\ waited < StopTimeout
    /\ waited' = waited + 1
    /\ UNCHANGED <<pc, req, resp, cur, sent, active_processes, latest,
                   process_logs, proc, pipe, reading, nlines, port>>
    /\ UNCHANGED <<connvars, botvars>>

\* ------------------------------------------------ port reclamation
\* What `lsof -ti :<prt>` prints when h holds the worker port: the pid of
\* the holder, or nothing for a holder it may not inspect.
LsofOutputs(prt, h) == IF prt = WorkerPort /\ h # NoPid THEN {{h}, {}} ELSE {{}}

RECURSIVE KillCalls(_, _)
KillCalls(S, sig) ==
    IF S = {} THEN <<>>
    ELSE LET p == CHOOSE x \in S : \A y \in S : x <= y
         IN <<<<p, sig>>>> \o KillCalls(S \ {p}, sig)

\* The operating system after SIGKILL reaches every process in S.
Killed(pr, S) == [p \in Pids |-> IF p \in S /\ pr[p] = "alive" THEN "zombie"
                                  ELSE pr[p]]

NoReclaim == [proc |-> proc, port |-> port, sent |-> <<>>]


\* Lines 105-119 and 222-240 on a platform where lsof or pkill exists: the
\* possible results.  With lsof, os.kill(SIGKILL) of every pid it prints (it
\* prints nothing for a holder it may not inspect), ProcessLookupError passed
\* over.  Without lsof, `pkill -f bot.py` signals every running worker.
Reclaim(tool, prt, h) ==
    IF tool = "lsof"
    THEN {[proc |-> Killed(proc, found \cap Pids),
           port |-> IF port \in found THEN NoPid ELSE port,
           sent |-> KillCalls(found, SIGKILL)] :
             found \in LsofOutputs(prt, h)}
    ELSE {[proc |-> proc, port |-> port,
           sent |-> KillCalls({p \in Pids : Alive(p)}, SIGTERM)]}

\* Lines 118-119 and 238-240: with neither lsof nor pkill installed the
\* fallback itself raises FileNotFoundError inside the except clause.
ReclaimRaises(tool) == tool = "none"

\* ------------------------------------------------------------ responses
Respond(r) ==
    /\ resp' = r
    /\ pc' = "respond"

\* Lines 203-208 and 285-290: `except Exception as e`.
Error500(op, e) == [op |-> op, status |-> 500, success |-> FALSE, error |-> e]

\* The handler returns; the server waits for the next request.
Return ==
    /\ pc = "respond"
    /\ pc' = "idle"
    /\ req' = NoReq
    /\ resp' = NoResp
    /\ cur' = NoPid
    /\ waited' = 0
    /\ sent' = <<>>
    /\ UNCHANGED <<active_processes, latest, process_logs, proc, pipe, reading, nlines, port>>
    /\ UNCHANGED <<connvars, botvars>>

\* ---------------------------------------------------------- _start_bot
\* Lines 124-144: the preflight check of the two artifact files.
Preflight(files) ==
    IF "creds.json" \notin files THEN "creds.json not found"
    ELSE IF ".env" \notin files THEN ".env not found"
    ELSE "ok"

\* The pids subprocess.Popen can be given: pids of no existing process whose
\* earlier pipes have been read to the end.
FreePids(pr) ==
    {p \in Pids : pr[p] = "none" /\ \A s \in Streams : ~reading[p][s]}

\* A slip that forgets the log record of the new worker.
RegisterTableOnly(p) ==
    /\ active_processes' = active_processes \cup {p}
    /\ UNCHANGED process_logs

\* Lines 157-158: register the new worker.
Register(p) ==
    /\ active_processes' = active_processes \cup {p}
    /\ process_logs' = [q \in DOMAIN process_logs \cup {p} |->
                          IF q = p THEN EmptyLog ELSE process_logs[q]]

\* A slip that starts the stdout reader only.
LaunchStdoutReaderOnly(p) ==
    reading' = [reading EXCEPT ![p] = [s \in Streams |-> s = "stdout"]]

\* Lines 160-179: start the two read_output threads.
LaunchReaders(p) ==
    reading' = [reading EXCEPT ![p] = [s \in Streams |-> TRUE]]

\* Lines 146-179: spawn on top of the process table pr, register, launch.
Spawn(pr, p) ==
    /\ p \in FreePids(pr)
    /\ proc' = [pr EXCEPT ![p] = "alive"]
    /\ pipe' = [pipe EXCEPT ![p] = [s \in Streams |-> <<>>]]
    /\ cur' = p
    /\ latest' = p
    /\ Register(p)
    /\ LaunchReaders(p)
    /\ pc' = "start_poll"
    /\ resp' = NoResp

\* Lines 95-179 and 203-208: probe the worker port, reclaim it when in use,
\* preflight, spawn.  files and tool are what the call finds on disk, h is
\* the holder of the worker port.  The code sleeps one second after a
\* reclamation; nothing it does afterwards reads what a worker or a reader
\* can change in that second, so the steps are taken together.
StartBot ==
    /\ pc = "idle"
    /\ \E files \in SUBSET Artifacts, tool \in Tools, h \in Holders :
         /\ req' = [op |-> "start", files |-> files]
         /\ IF is_port_in_use(h) /\ ReclaimRaises(tool)
            THEN /\ Respond(Error500("start", "FileNotFoundError: pkill"))
                 /\ UNCHANGED <<cur, sent, active_processes, latest,
                                process_logs, proc, pipe, reading,
                                port>>
            ELSE \E r \in (IF is_port_in_use(h)
                           THEN Reclaim(tool, WorkerPort, h)
                           ELSE {NoReclaim}) :
                   /\ sent' = r.sent
                   /\ port' = r.port
                   /\ IF Preflight(files) # "ok"
                      THEN /\ Respond([op |-> "start", status |-> 200,
                                       success |-> FALSE,
                                       error |-> Preflight(files)])
                           /\ proc' = r.proc
                           /\ UNCHANGED <<cur, active_processes, latest,
                                          process_logs, pipe, reading>>
                      ELSE \/ \E p \in Pids : Spawn(r.proc, p)
                           \/ /\ Respond(Error500("start", "OSError: spawn"))
                              /\ proc' = r.proc
                              /\ UNCHANGED <<cur, active_processes, latest,
                                             process_logs, pipe, reading>>
    /\ UNCHANGED <<waited, nlines>>
    /\ UNCHANGED <<connvars, botvars>>

\* Lines 181-201: after the 0.5 s sleep, poll the child.  An exited child is
\* reaped, communicate() takes what is left in the pipes and closes them.
StartPoll ==
    /\ pc = "start_poll"
    /\ IF ~Alive(cur)
       THEN /\ \E code \in ReturnCodes :
                 Respond([op |-> "start", status |-> 500, success |-> FALSE,
                          error |-> "Bot failed to start", code |-> code,
                          stderr |-> Flatten(pipe[cur]["stderr"])])
            /\ proc' = [proc EXCEPT ![cur] = "none"]
            /\ pipe' = [pipe EXCEPT ![cur] = [s \in Streams |-> <<>>]]
            /\ reading' = [reading EXCEPT ![cur] = [s \in Streams |-> FALSE]]
       ELSE /\ Respond([op |-> "start", status |-> 200, success |-> TRUE,
                        pid |-> cur])
            /\ UNCHANGED <<proc, pipe, reading>>
    /\ UNCHANGED <<req, cur, waited, sent, active_processes, latest,
                   process_logs, nlines, port>>
    /\ UNCHANGED <<connvars, botvars>>

\* ----------------------------------------------------------- _stop_bot
\* os.kill(p, sig) on an existing process.
KillEffect(p, sig) ==
    /\ sent' = Append(sent, <<p, sig>>)
    /\ proc' = IF sig = SIGKILL THEN Killed(proc, {p}) ELSE proc
    /\ port' = IF sig = SIGKILL /\ port = p THEN NoPid ELSE port

\* A slip that empties the table.
ForgetAll(p) == active_processes' = {}

\* Line 279.
Forget(p) == active_processes' = active_processes \ {p}

\* A slip that tests only whether an id was given.
NotFoundNoLookup(pid) == Falsy(pid)

\* Line 246.
NotFound(pid) == Falsy(pid) \/ pid \notin active_processes

\* Lines 220-244: the force_port mode.
StopPort(tool, h) ==
    /\ IF ReclaimRaises(tool)
       THEN /\ Respond(Error500("stop", "FileNotFoundError: pkill"))
            /\ UNCHANGED <<sent, proc, port>>
       ELSE \E r \in Reclaim(tool, req'.force_port, h) :
              /\ sent' = r.sent
              /\ proc' = r.proc
              /\ port' = r.port
              /\ Respond([op |-> "stop", status |-> 200, success |-> TRUE])
    /\ UNCHANGED <<active_processes, waited>>

\* Lines 210-266: everything up to the wait.
StopBot ==
    /\ pc = "idle"
    /\ \E pid \in RequestPids, force \in BOOLEAN,
          force_port \in {NoPort, WorkerPort}, tool \in Tools,
          h \in Holders :
         /\ req' = [op |-> "stop", pid |-> pid, force |-> force,
                    force_port |-> force_port]
         /\ IF force_port # NoPort
            THEN StopPort(tool, h)
            ELSE IF NotFound(pid)
            THEN /\ Respond([op |-> "stop", status |-> 200, success |-> FALSE,
                             error |-> "Process not found"])
                 /\ UNCHANGED <<sent, proc, port, active_processes, waited>>
            ELSE IF Gone(pid)
            THEN /\ Respond(Error500("stop", "ProcessLookupError"))
                 /\ sent' = <<<<pid, IF force THEN SIGKILL ELSE SIGTERM>>>>
                 /\ UNCHANGED <<proc, port, active_processes, waited>>
            ELSE IF force
            THEN /\ KillEffect(pid, SIGKILL)
                 /\ Forget(pid)
                 /\ Respond([op |-> "stop", status |-> 200, success |-> TRUE])
                 /\ UNCHANGED waited
            ELSE /\ KillEffect(pid, SIGTERM)
                 /\ pc' = "stop_wait"
                 /\ waited' = 0
                 /\ UNCHANGED <<resp, active_processes>>
    /\ UNCHANGED <<cur, latest, process_logs, pipe, reading, nlines>>
    /\ UNCHANGED <<connvars, botvars>>

\* Lines 268-283: process.wait(timeout=3) returns because the child has
\* exited (and reaps it), or raises TimeoutExpired after StopTimeout seconds.
StopWait ==
    /\ pc = "stop_wait"
    /\ \/ /\ ~Alive(req.pid)
          /\ proc' = [proc EXCEPT ![req.pid] = "none"]
          /\ UNCHANGED <<sent, port>>
       \/ /\ Alive(req.pid)
          /\ waited = StopTimeout
          /\ KillEffect(req.pid, SIGKILL)
    /\ Forget(req.pid)
    /\ Respond([op |-> "stop", status |-> 200, success |-> TRUE])
    /\ UNCHANGED <<req, cur, waited, latest, process_logs, pipe, reading, nlines>>
    /\ UNCHANGED <<connvars, botvars>>

\* ------------------------------------------------------- _get_bot_logs
\* Line 312.
LatestPid == Max(DOMAIN process_logs)

LogsResponse(p) ==
    [op |-> "logs", status |-> 200, success |-> TRUE, pid |-> p,
     stdout |-> process_logs[p]["stdout"],
     stderr |-> process_logs[p]["stderr"]]

\* Lines 292-326.
GetBotLogs ==
    /\ pc = "idle"
    /\ \E pid \in RequestPids :
         /\ req' = [op |-> "logs", pid |-> pid]
         /\ IF ~Falsy(pid) /\ pid \in DOMAIN process_logs
            THEN Respond(LogsResponse(pid))
            ELSE IF Falsy(pid) /\ DOMAIN process_logs # {}
            THEN Respond(LogsResponse(LatestPid))
            ELSE Respond([op |-> "logs", status |-> 200, success |-> FALSE,
                          error |-> "No bot logs available"])
    /\ UNCHANGED <<cur, waited, sent, active_processes, latest, process_logs,
                   proc, pipe, reading, nlines, port>>
    /\ UNCHANGED <<connvars, botvars>>

\* -------------------------------------------------------------- cleanup
\* A slip that lets the first failing os.kill end the loop.
CleanupUntilFailure(tracked, pr) ==
    {p \in tracked : \A q \in tracked : q < p => pr[q] # "none"}

\* Lines 331-339: the entries os.kill(pid, SIGKILL) is called for.  The loop
\* runs over a copy of the table and the bare except passes over a call that
\* raises (ProcessLookupError for an entry whose process is gone).
CleanupTargets(tracked, pr) == tracked

\* Lines 329-339 and 351-354: serve_forever is left (KeyboardInterrupt, while
\* waiting for a request or inside a handler) and the finally clause runs
\* cleanup().
Cleanup ==
    /\ pc # "shutdown"
    /\ pc' = "shutdown"
    /\ sent' = KillCalls(CleanupTargets(active_processes, proc), SIGKILL)
    /\ proc' = Killed(proc, CleanupTargets(active_processes, proc))
    /\ port' = IF port \in CleanupTargets(active_processes, proc)
               THEN NoPid ELSE port
    /\ UNCHANGED <<req, resp, cur, waited, active_processes, latest,
                   process_logs, pipe, reading, nlines>>
    /\ UNCHANGED <<connvars, botvars>>

\* ------------------------------------------------------ specification
Next ==
    \/ StartBot \/ StartPoll
    \/ StopBot \/ StopWait
    \/ GetBotLogs
    \/ Return
    \/ Cleanup
    \/ Tick
    \/ \E p \in Pids : WorkerBind(p)
    \/ \E p \in Pids : WorkerExit(p)
    \/ \E p \in Pids, s \in Streams : ReadEOF(p, s)

\* The control plane: workers that write nothing to their pipes.
Spec == Init /\ [][Next]_vars

\* The same with worker output: at most MaxLines lines are written in a run.
NextLog ==
    \/ Next
    \/ \E p \in Pids, s \in Streams : WorkerWrite(p, s)
    \/ \E p \in Pids, s \in Streams : ReadLine(p, s)

SpecLog == Init /\ [][NextLog]_vars

\* The control plane under fair scheduling: a handler that can return does,
\* the clock of process.wait advances, and a reader thread whose pipe is at
\* end of file gets to run (the threads are scheduled by the interpreter
\* whatever the server thread is doing).
SpecFair ==
    /\ Spec
    /\ WF_vars(Return)
    /\ WF_vars(StartPoll)
    /\ WF_vars(StopWait)
    /\ WF_vars(Tick)
    /\ \A p \in Pids, s \in Streams : SF_vars(ReadEOF(p, s))

\* ===================================== server.py: serving the requests
\* main() serves the control port with socketserver.TCPServer: serve_forever
\* accepts one connection, runs its handler to the end in the same thread
\* and only then accepts the next.  Clients may connect at any time; their
\* requests wait in the listen queue.  A handler's places are the points
\* of the handlers above: before the registration of a new worker
\* (start_check, lines 95-155), in the sleep before the poll (start_poll,
\* lines 156-201), before the signal (stop_signal, lines 210-266), in
\* process.wait (stop_wait, lines 268-283), and in _get_bot_logs (logs).
Handling == {"start_check", "start_poll", "stop_signal", "stop_wait", "logs"}

\* The place a handler starts at, by the path of the request (do_POST).
Entry == {"start_check", "stop_signal", "logs"}

\* A slip that serves every connection in a thread of its own
\* (socketserver.ThreadingTCPServer).
CanAcceptThreaded(h) == TRUE

\* Lines 348-350: TCPServer.process_request calls the handler inline, so
\* serve_forever is back at accept only when no handler is running.
CanAccept(h) == \A c \in Clients : h[c] \notin Handling

\* A client connects to the control port and sends its request.
ClientConnect(c) ==
    /\ handler[c] = "none"
    /\ handler' = [handler EXCEPT ![c] = "queued"]
    /\ UNCHANGED <<servervars, botvars>>

\* serve_forever accepts the connection of c and calls its handler.
ServeRequest(c) ==
    /\ handler[c] = "queued"
    /\ CanAccept(handler)
    /\ \E e \in Entry : handler' = [handler EXCEPT ![c] = e]
    /\ UNCHANGED <<servervars, botvars>>

\* _start_bot registers the worker it spawned (lines 156-158), or answers
\* with a failure before that (lines 126-144, 203-208).
StartRegisters(c) ==
    /\ handler[c] = "start_check"
    /\ \E next \in {"start_poll", "closed"} :
         handler' = [handler EXCEPT ![c] = next]
    /\ UNCHANGED <<servervars, botvars>>

\* _stop_bot answers at once (lines 220-249, 253-259), or sends SIGTERM and
\* waits (lines 265-269).
StopSignals(c) ==
    /\ handler[c] = "stop_signal"
    /\ \E next \in {"stop_wait", "closed"} :
         handler' = [handler EXCEPT ![c] = next]
    /\ UNCHANGED <<servervars, botvars>>

\* A handler writes its response and returns; the connection is closed.
HandlerReturns(c) ==
    /\ handler[c] \in {"start_poll", "stop_wait", "logs"}
    /\ handler' = [handler EXCEPT ![c] = "closed"]
    /\ UNCHANGED <<servervars, botvars>>

NextServe ==
    \/ \E c \in Clients : ClientConnect(c)
    \/ \E c \in Clients : ServeRequest(c)
    \/ \E c \in Clients : StartRegisters(c)
    \/ \E c \in Clients : StopSignals(c)
    \/ \E c \in Clients : HandlerReturns(c)

\* Concurrent clients of the control port.
SpecServe == Init /\ [][NextServe]_vars

\* =============================================== bot.py: session timeout
\* One worker process runs one PipelineTask.  The transport calls
\* on_session_timeout when a client has been idle; each call builds a new
\* SessionTimeoutHandler around the same task.  The asyncio event loop runs
\* one callback at a time, so each step below is atomic.
BotInterruptionFrame == "BotInterruptionFrame"
EndFrame == "EndFrame"

\* Line 140: what handle_timeout queues.
HandleTimeoutFrames == <<BotInterruptionFrame>>

\* Line 156: what _end_call queues.
EndCallFrames == <<BotInterruptionFrame, EndFrame>>

IsNoInterruption(f) == f # BotInterruptionFrame

\* A slip that loses the interruption frames on the way into the queue.
QueueDroppingInterruptions(q, frames) == q \o SelectSeq(frames, IsNoInterruption)

\* task.queue_frames(frames), lines 140 and 156: the frames are put at the
\* end of the task's queue in the order given.
queue_frames(q, frames) == q \o frames

\* A queue_frames call that raises after k of its frames went in; with
\* k = Len(frames) it returns normally.
Injected(frames, k) == SubSeq(frames, 1, k)

Sleeping(n) == end_call[n] = "sleeping"

\* A slip that lets the exception of queue_frames leave handle_timeout.
PropagatesFailure(failed) == failed

\* Lines 136 and 146-147: `except Exception` logs the error of a failed
\* queue_frames call; nothing is raised to on_session_timeout's caller.
Propagates(failed) == FALSE

\* Lines 255-260 and 134-147: the transport reports an idle timeout.  When
\* the interruption frame is queued the _end_call task is created; an
\* exception is logged and nothing else is done.
on_session_timeout ==
    /\ pipeline = "running"
    /\ ntimeouts < MaxTimeouts
    /\ ntimeouts' = ntimeouts + 1
    /\ \E k \in 0..Len(HandleTimeoutFrames) :
         /\ queued' = queue_frames(queued, Injected(HandleTimeoutFrames, k))
         /\ IF k = Len(HandleTimeoutFrames)
            THEN /\ end_call' = [end_call EXCEPT ![ntimeouts + 1] = "sleeping"]
                 /\ sleep_left' = [sleep_left EXCEPT ![ntimeouts + 1] = GraceDelay]
            ELSE UNCHANGED <<end_call, sleep_left>>
         /\ escaped' = (escaped \/ Propagates(k < Len(HandleTimeoutFrames)))
    /\ UNCHANGED <<consumed, pipeline>>
    /\ UNCHANGED <<servervars, connvars, langvars, stagevars, transcriptvars>>

\* One second passes for every asyncio.sleep(3) still running.
SessionTick ==
    /\ pipeline # "closed"
    /\ \E n \in Timeouts : Sleeping(n) /\ sleep_left[n] > 0
    /\ sleep_left' = [n \in Timeouts |->
                        IF Sleeping(n) /\ sleep_left[n] > 0
                        THEN sleep_left[n] - 1 ELSE sleep_left[n]]
    /\ UNCHANGED <<queued, consumed, pipeline, ntimeouts, end_call, escaped>>
    /\ UNCHANGED <<servervars, connvars, langvars, stagevars, transcriptvars>>

\* A slip that lets _end_call go on without waiting.
SleepSkipped(n) == TRUE

\* Line 153: `await asyncio.sleep(3)` of the n-th _end_call task returns
\* when its three seconds have passed.
SleepOver(n) == sleep_left[n] = 0

\* Lines 149-160: the sleep of the n-th _end_call task is over (the loop
\* wakes the tasks in the order of their deadlines); it queues its two
\* frames, an exception is logged.
EndCall(n) ==
    /\ pipeline # "closed"
    /\ Sleeping(n)
    /\ SleepOver(n)
    /\ \A m \in Timeouts : m < n => ~Sleeping(m)
    /\ \E k \in 0..Len(EndCallFrames) :
         /\ queued' = queue_frames(queued, Injected(EndCallFrames, k))
         /\ end_call' = [end_call EXCEPT
                           ![n] = IF k = Len(EndCallFrames) THEN "done"
                                                            ELSE "failed"]
    /\ UNCHANGED <<consumed, pipeline, ntimeouts, sleep_left, escaped>>
    /\ UNCHANGED <<servervars, connvars, langvars, stagevars, transcriptvars>>

\* The pipeline takes the next frame of its queue; an EndFrame ends it.
PipelineProcess ==
    /\ pipeline = "running"
    /\ consumed < Len(queued)
    /\ consumed' = consumed + 1
    /\ pipeline' = IF queued[consumed + 1] = EndFrame THEN "ended"
                                                       ELSE "running"
    /\ UNCHANGED <<queued, ntimeouts, end_call, sleep_left, escaped>>
    /\ UNCHANGED <<servervars, connvars, langvars, stagevars, transcriptvars>>

\* The pipeline ends without an EndFrame of the handler: the runner is
\* cancelled by the SIGTERM of the supervisor's Stop.
PipelineCancelled ==
    /\ pipeline = "running"
    /\ pipeline' = "ended"
    /\ UNCHANGED <<queued, consumed, ntimeouts, end_call, sleep_left, escaped>>
    /\ UNCHANGED <<servervars, connvars, langvars, stagevars, transcriptvars>>

\* Lines 263 and 267: runner.run(task) returns, main() returns and
\* asyncio.run cancels the tasks that are still sleeping.
LoopClose ==
    /\ pipeline = "ended"
    /\ pipeline' = "closed"
    /\ end_call' = [n \in Timeouts |->
                      IF Sleeping(n) THEN "cancelled" ELSE end_call[n]]
    /\ UNCHANGED <<queued, consumed, ntimeouts, sleep_left, escaped>>
    /\ UNCHANGED <<servervars, connvars, langvars, stagevars, transcriptvars>>

NextSession ==
    \/ on_session_timeout
    \/ SessionTick
    \/ \E n \in Timeouts : EndCall(n)
    \/ PipelineProcess
    \/ PipelineCancelled
    \/ LoopClose

\* One session of one worker, from main() to the end of its event loop.
SpecSession == Init /\ [][NextSession]_vars

\* The event loop of a live worker keeps running: time passes for the
\* sleeping tasks, a task whose sleep is over is resumed, the pipeline takes
\* the frames of its queue and asyncio.run returns once main() has.  Nothing
\* makes the transport report a timeout or the supervisor stop the worker.
SpecSessionFair ==
    /\ SpecSession
    /\ WF_vars(SessionTick)
    /\ \A n \in Timeouts : WF_vars(EndCall(n))
    /\ WF_vars(PipelineProcess)
    /\ WF_vars(LoopClose)

\* ======================================= bot.py: TranslationProcessor
Languages == {"Bengali", "English", "Spanish"}
Directions == {"DOWNSTREAM", "UPSTREAM"}
Texts == {"", "ami"}

\* The frames the stage is handed: recognized speech with its text, and
\* frames of other classes.
InputFrames ==
    [type : {"TranscriptionFrame"}, text : Texts]
      \cup [type : {"InterimTranscriptionFrame"}, text : {"ami"}]
      \cup [type : {"ErrorFrame"}]

\* The constructor arguments of TranslationProcessor and TranscriptHandler
\* (lines 53-62 and 93-97): any two language names.
LanguagesAny ==
    /\ in_language \in Languages
    /\ out_language \in Languages

\* Line 78: the f-string of the system message, piece by piece.
SystemInstruction(src, dst) ==
    <<"You will be provided with a sentence in ", src,
      ", and your task is to only translate it into ", dst, ".">>

\* Lines 75-82: LLMMessagesFrame(context).
LLMMessagesFrame(context) == [type |-> "LLMMessagesFrame", messages |-> context]

\* push_frame(frame) called without a direction pushes downstream.
PushDefault == "DOWNSTREAM"

\* Lines 64-84: the frame pushed for (frame, direction), with the direction
\* it is pushed in.
process_frame(frame, direction) ==
    IF frame.type = "TranscriptionFrame"
    THEN <<LLMMessagesFrame(
             <<[role |-> "system",
                content |-> SystemInstruction(in_language, out_language)],
               [role |-> "user", content |-> frame.text]>>),
           PushDefault>>
    ELSE <<frame, PushDefault>>

\* The pipeline hands the stage its next frame.
ProcessFrame ==
    /\ Len(tp_in) < MaxFrames
    /\ \E frame \in InputFrames, direction \in Directions :
         /\ tp_in' = Append(tp_in, <<frame, direction>>)
         /\ tp_out' = Append(tp_out, process_frame(frame, direction))
    /\ UNCHANGED <<servervars, connvars, sessionvars, langvars, transcriptvars>>

InitStage ==
    /\ ServerInit
    /\ ConnInit
    /\ SessionInit
    /\ LanguagesAny
    /\ StageInit
    /\ TranscriptInit

NextStage == ProcessFrame

\* A TranslationProcessor and the frames it is given.
SpecStage == InitStage /\ [][NextStage]_vars

\* ========================================== bot.py: TranscriptHandler
Roles == {"user", "assistant", "system"}
Contents == {"hola", "hello"}
Timestamps == {"", "00:01"}       \* no timestamp (falsy), or one

\* TranscriptionMessage: the entries of frame.messages.
TranscriptionMessages ==
    [role : Roles, content : Contents, timestamp : Timestamps]

\* frame.messages of one TranscriptionUpdateFrame: one or more messages, as
\* long as the run stays within MaxMessages.
UpdateBatches(room) ==
    UNION {[1..n -> TranscriptionMessages] : n \in 1..room}

\* A slip that puts the new messages in front.
ExtendInFront(list, items) == items \o list

\* Line 108: list.extend.
extend(list, items) == list \o items

\* Line 118.
ResolvedLanguage(role) ==
    IF role = "assistant" THEN out_language ELSE in_language

\* Lines 114-120: the dict built for one message.
MessageRecord(msg) ==
    [event |-> "translation", timestamp |-> msg.timestamp, role |-> msg.role,
     language |-> ResolvedLanguage(msg.role), text |-> msg.content]

\* Lines 99-121.
on_transcript_update ==
    /\ Len(messages) < MaxMessages
    /\ \E batch \in UpdateBatches(MaxMessages - Len(messages)) :
         /\ messages' = extend(messages, batch)
         /\ batches' = Append(batches, batch)
         /\ logged' = logged \o [i \in DOMAIN batch |-> MessageRecord(batch[i])]
    /\ UNCHANGED <<servervars, connvars, sessionvars, langvars, stagevars>>

InitTranscript ==
    /\ ServerInit
    /\ ConnInit
    /\ SessionInit
    /\ LanguagesAny
    /\ StageInit
    /\ TranscriptInit

NextTranscript == on_transcript_update

\* A TranscriptHandler and the update frames it is given.
SpecTranscript == InitTranscript /\ [][NextTranscript]_vars

\* ================================================================ claims
\* The handler for `op` has written its response and is about to return.
Responded(op) == pc = "respond" /\ req.op = op

\* The pids os.kill was called on while handling the current request.
Signalled == {sent[i][1] : i \in DOMAIN sent}

\* C1: the active-process table never holds more than one worker at a time.
C1_AtMostOneTracked == Cardinality(active_processes) <= 1

\* C2: when Start reports failure, the table holds no entry for a worker
\* that this Start call created.
C2_FailedStartLeavesNoEntry ==
    (Responded("start") /\ ~resp.success) => cur \notin active_processes

\* C3: when Start reports success with pid p, the worker was alive at the
\* poll, p is a key of the table, p has an initialised log record with a
\* stdout and a stderr sequence, and both readers of p are running.
C3_SuccessfulStart ==
    (Responded("start") /\ resp.success) =>
        /\ resp.pid = cur
        /\ Alive(resp.pid)
        /\ resp.pid \in active_processes
        /\ resp.pid \in DOMAIN process_logs
        /\ DOMAIN process_logs[resp.pid] = Streams
        /\ \A s \in Streams : process_logs[resp.pid][s] \in Seq(Seq(STRING))
        /\ \A s \in Streams : reading[resp.pid][s]

C3_Witness == Responded("start") /\ resp.success /\ resp.pid \in Pids

\* C4: a Start that finds the credential file or the environment file
\* missing returns a failure naming the missing artifact, adds no table
\* entry, creates no log record and spawns no process.
C4_MissingArtifactFailsFast ==
    [][(pc = "idle" /\ pc' = "respond" /\ req'.op = "start"
          /\ req'.files # Artifacts)
       => /\ ~resp'.success
          /\ resp'.error = (IF "creds.json" \notin req'.files
                            THEN "creds.json not found" ELSE ".env not found")
          /\ active_processes' = active_processes
          /\ process_logs' = process_logs
          /\ \A p \in Pids : Alive(p)' => Alive(p)]_vars

\* C5: Stop(id, force=false) on a tracked id first sends SIGTERM and waits;
\* SIGKILL is sent exactly when the worker is still running after
\* StopTimeout seconds of waiting; id is not in the table when Stop returns.
C5_GracefulThenForced ==
    [][/\ (pc = "idle" /\ req'.op = "stop" /\ req'.force_port = NoPort
             /\ ~req'.force /\ req'.pid \in active_processes)
          => /\ pc' = "stop_wait"
             /\ sent' = <<<<req'.pid, SIGTERM>>>>
             /\ req'.pid \in active_processes'
       /\ (pc = "stop_wait" /\ pc' = "respond")
          => /\ req.pid \notin active_processes'
             /\ resp'.success
             /\ (<<req.pid, SIGKILL>> \in {sent'[i] : i \in DOMAIN sent'})
                  <=> (Alive(req.pid) /\ waited = StopTimeout)]_vars

\* C6: when a Stop call returns, in any mode and with any result, no worker
\* that the call targeted or signalled is left in the table with its process
\* exited.
C6_StopLeavesNoExitedEntry ==
    Responded("stop") =>
        \A p \in active_processes :
            ((req.force_port = NoPort /\ p = req.pid) \/ p \in Signalled)
                => Alive(p)

\* C7: Stop without force_port and with no id, or an id that is not a key
\* of the table, answers "Process not found", calls os.kill on nothing and
\* changes neither table nor any process.
C7_StopUnknownIdNoEffect ==
    [][(pc = "idle" /\ req'.op = "stop" /\ req'.force_port = NoPort
          /\ (req'.pid \in {NoPid, 0} \/ req'.pid \notin active_processes))
       => /\ pc' = "respond"
          /\ resp' = [op |-> "stop", status |-> 200, success |-> FALSE,
                      error |-> "Process not found"]
          /\ sent' = <<>>
          /\ UNCHANGED <<active_processes, process_logs, proc, pipe, reading,
                         port>>]_vars

C7_Witness ==
    /\ Responded("stop")
    /\ ~resp.success
    /\ resp.error = "Process not found"
    /\ req.pid \in Pids
    /\ \E p \in active_processes : Alive(p)

\* C8: Stop with force_port leaves the table as it is, whatever id is
\* given, and always reports success.
C8_ForcePortAlwaysSucceeds ==
    [][(pc = "idle" /\ req'.op = "stop" /\ req'.force_port # NoPort)
       => /\ pc' = "respond"
          /\ active_processes' = active_processes
          /\ resp'.success]_vars

\* C9: GetLogs with an id that has a log record returns that record's
\* lines in order; GetLogs with no id returns the record of the most
\* recently started worker.
C9_LogsOfIdOrLatest ==
    Responded("logs") =>
        /\ req.pid \in DOMAIN process_logs
             => /\ resp.success
                /\ resp.pid = req.pid
                /\ resp.stdout = process_logs[req.pid]["stdout"]
                /\ resp.stderr = process_logs[req.pid]["stderr"]
        /\ (req.pid = NoPid /\ latest # NoPid)
             => /\ resp.success
                /\ resp.pid = latest
                /\ resp.stdout = process_logs[latest]["stdout"]
                /\ resp.stderr = process_logs[latest]["stderr"]

\* C10: GetLogs on the id of a started worker without output succeeds with
\* empty line lists; GetLogs on an id no started worker ever had returns the
\* NoLogs error; GetLogs with no id returns NoLogs exactly when no worker has
\* ever been started.
C10_EmptyVersusNoLogs ==
    Responded("logs") =>
        /\ (req.pid \in DOMAIN process_logs
              /\ process_logs[req.pid] = EmptyLog)
             => (resp.success /\ resp.stdout = <<>> /\ resp.stderr = <<>>)
        /\ (req.pid # NoPid /\ req.pid \notin DOMAIN process_logs)
             => (~resp.success /\ resp.error = "No bot logs available")
        /\ req.pid = NoPid => (~resp.success <=> latest = NoPid)

\* a is an initial segment of b.
IsPrefix(a, b) == Len(a) <= Len(b) /\ SubSeq(b, 1, Len(a)) = a

\* C11: a worker's log record is append-only and retained: once the stdout
\* or stderr log of pid p holds a line, every step leaves p with a log record
\* whose sequence extends the earlier one.
C11_LogsAppendOnly ==
    [][\A p \in DOMAIN process_logs : \A s \in Streams :
          process_logs[p][s] # <<>>
            => /\ p \in DOMAIN process_logs'
               /\ IsPrefix(process_logs[p][s], process_logs'[p][s])]_vars

\* C12: cleanup() calls os.kill(pid, SIGKILL) for every pid that is in the
\* table when it is invoked, whether or not the call for another entry
\* fails, and it always completes: afterwards no tracked worker is running.
C12_CleanupKillsEveryEntry ==
    [][(pc # "shutdown" /\ pc' = "shutdown")
       => /\ {sent'[i] : i \in DOMAIN sent'}
               = {<<p, SIGKILL>> : p \in active_processes}
          /\ \A p \in active_processes : ~Alive(p)'
          /\ active_processes' = active_processes]_vars

\* cleanup() has run over a table holding an entry whose process is gone
\* and, after it, an entry whose worker was running.
C12_Witness ==
    /\ pc = "shutdown"
    /\ \E p, q \in active_processes :
         /\ p < q
         /\ Gone(p)
         /\ proc[q] = "zombie"
         /\ <<p, SIGKILL>> \in {sent[i] : i \in DOMAIN sent}
         /\ <<q, SIGKILL>> \in {sent[i] : i \in DOMAIN sent}

\* The session-end signal has been put into the pipeline's queue.
EndInjected == \E i \in DOMAIN queued : queued[i] = EndFrame

\* C13: the timeout phase only moves forward: once the session-end signal
\* has been injected, no step starts an interruption with a new grace timer.
C13_NoRestartAfterEnd ==
    [][EndInjected => \A n \in Timeouts : Sleeping(n)' => Sleeping(n)]_vars

\* C14: for any number of notifications in one session at most one grace
\* timer is pending and at most one session-end signal is injected.
C14_OneTimerOneEnd ==
    /\ Cardinality({n \in Timeouts : Sleeping(n)}) <= 1
    /\ Cardinality({i \in DOMAIN queued : queued[i] = EndFrame}) <= 1

\* C15: every session-end signal in the queue has an interruption signal of
\* the handler before it.
C15_InterruptBeforeEnd ==
    \A i \in DOMAIN queued :
        queued[i] = EndFrame
          => \E j \in 1..(i - 1) : queued[j] = BotInterruptionFrame

C15_Witness ==
    /\ EndInjected
    /\ \E n \in Timeouts : end_call[n] = "done"

Elements(s) == {s[i] : i \in DOMAIN s}

\* C16: the stage's output has the length and order of its input: a
\* recognized-speech frame with text T is replaced, in place, by one
\* translation request whose user content is T and whose system instruction
\* names the configured source and target languages; every other frame is
\* forwarded unchanged, as the same frame in the same direction.
C16_StageMapsInPlace ==
    /\ Len(tp_out) = Len(tp_in)
    /\ \A i \in DOMAIN tp_in :
         IF tp_in[i][1].type = "TranscriptionFrame"
         THEN /\ tp_out[i][1].type = "LLMMessagesFrame"
              /\ Len(tp_out[i][1].messages) = 2
              /\ tp_out[i][1].messages[1].role = "system"
              /\ in_language \in Elements(tp_out[i][1].messages[1].content)
              /\ out_language \in Elements(tp_out[i][1].messages[1].content)
              /\ tp_out[i][1].messages[2]
                   = [role |-> "user", content |-> tp_in[i][1].text]
         ELSE tp_out[i] = tp_in[i]

\* C17: after any sequence of update batches the handler's log is the
\* concatenation of the batches in arrival order, and the language resolved
\* for each entry is the target language for role assistant and the source
\* language for any other role.
C17_TranscriptIsConcatenation ==
    /\ messages = Flatten(batches)
    /\ Len(logged) = Len(messages)
    /\ \A i \in DOMAIN logged :
         /\ logged[i].role = messages[i].role
         /\ logged[i].text = messages[i].content
         /\ messages[i].role = "assistant" => logged[i].language = out_language
         /\ messages[i].role # "assistant" => logged[i].language = in_language

\* A user batch followed by an assistant batch, with different languages.
C17_Witness ==
    /\ Len(batches) = 2
    /\ Len(messages) = 2
    /\ messages[1].role = "user"
    /\ messages[2].role = "assistant"
    /\ messages[1].content # messages[2].content
    /\ in_language # out_language
    /\ logged[1].language = in_language
    /\ logged[2].language = out_language

\* C18: port reclamation in Start is best-effort: a Start that answers with
\* a failure before any worker is spawned does so because an artifact is
\* missing (and says which) or because the spawn itself failed, never
\* because of what happened while reclaiming the port.
C18_ReclamationNeverFatal ==
    [][(pc = "idle" /\ req'.op = "start" /\ pc' = "respond")
       => \/ /\ req'.files # Artifacts
             /\ resp'.error = Preflight(req'.files)
          \/ /\ req'.files = Artifacts
             /\ resp'.error = "OSError: spawn"]_vars

\* The number of lines in a text: its newline characters.
LinesIn(text) == Cardinality({i \in DOMAIN text : text[i] = "\n"})

\* C19: when the poll finds the worker exited, the failure response carries
\* its exit code and every line the worker wrote to standard error: those
\* still in the pipe and those a reader has already taken.
C19_EarlyExitReportsAllStderr ==
    [][(pc = "start_poll" /\ pc' = "respond" /\ ~resp'.success)
       => /\ resp'.code \in ReturnCodes
          /\ LinesIn(resp'.stderr)
               = Len(process_logs[cur]["stderr"]) + Len(pipe[cur]["stderr"])]_vars

\* C20: each reader appends every line of its stream to the worker's log in
\* the order written: whenever lines leave the pipe of a stream, exactly
\* those lines, stripped, are added at the end of that stream's log.
C20_ReadersAppendEveryLine ==
    [][\A p \in Pids, s \in Streams :
          Len(pipe'[p][s]) < Len(pipe[p][s])
            => /\ p \in DOMAIN process_logs'
               /\ process_logs'[p][s]
                    = process_logs[p][s]
                        \o [i \in 1..(Len(pipe[p][s]) - Len(pipe'[p][s]))
                              |-> Strip(pipe[p][s][i])]]_vars

\* C20, termination: under fair scheduling a reader whose worker has exited
\* ends by itself (or the supervisor has shut down, which ends its daemon
\* threads), whether or not the worker is still in the table.
C20_ReadersTerminate ==
    \A p \in Pids, s \in Streams :
        (reading[p][s] /\ ~Alive(p)) ~> (~reading[p][s] \/ pc = "shutdown")

\* C21: calls of concurrent clients are serialized: at most one Start is
\* between its check of the port and the registration of its worker, and no
\* handler runs while another one is between its first and its last access
\* to the tables.
C21_CallsAreSerialized ==
    /\ Cardinality({c \in Clients : handler[c] = "start_check"}) <= 1
    /\ Cardinality({c \in Clients : handler[c] \in Handling}) <= 1

\* A Start is before its registration while two other clients wait.
C21_Witness ==
    \E c \in Clients :
        /\ handler[c] = "start_check"
        /\ Cardinality({d \in Clients : handler[d] = "queued"}) >= 2

\* An injection of the handler has failed: handle_timeout ended without its
\* task, or an _end_call task ended in its except clause.
InjectionFailed ==
    \E n \in Timeouts :
        \/ end_call[n] = "failed"
        \/ n <= ntimeouts /\ end_call[n] = "none"

\* C22 as stated, for a run that is over: when the worker's event loop has
\* closed after a notification whose interruption was injected, and no
\* injection failed, the session-end signal has been injected.
C22_EndFollowsEveryInterruption ==
    ( /\ pipeline = "closed"
      /\ \E n \in Timeouts : end_call[n] # "none"
      /\ ~InjectionFailed )
      => EndInjected

\* C22, amended: a notification whose interruption signal is injected
\* schedules a single-shot grace timer of 3 time units; that timer injects
\* nothing before its 3 units have passed, and, unless its injection fails
\* or the worker's event loop is stopped first, the session-end signal is
\* eventually injected.
C22_GraceThenEnd ==
    /\ [][ /\ ( /\ ntimeouts' = ntimeouts + 1
                /\ queued' = queued \o <<BotInterruptionFrame>> )
               => /\ end_call'[ntimeouts'] = "sleeping"
                  /\ sleep_left'[ntimeouts'] = GraceDelay
          /\ \A n \in Timeouts :
               /\ Sleeping(n) /\ Sleeping(n)'
                    => /\ sleep_left'[n] >= sleep_left[n] - 1
                       /\ queued' = queued \/ sleep_left'[n] = sleep_left[n]
               /\ Sleeping(n) /\ end_call'[n] \in {"done", "failed"}
                    => sleep_left[n] = 0
               /\ end_call[n] \in {"done", "failed", "cancelled"}
                    => end_call'[n] = end_call[n]
               /\ end_call[n] = "none" /\ n # ntimeouts + 1
                    => end_call'[n] = "none" ]_vars
    /\ \A n \in Timeouts :
         Sleeping(n) ~> ( \/ EndInjected
                          \/ end_call[n] = "failed"
                          \/ pipeline = "closed" )

\* The interruption, three ticks, then the two frames of _end_call, taken
\* by the pipeline up to the EndFrame.
C22_Witness ==
    /\ end_call[1] = "done"
    /\ sleep_left[1] = 0
    /\ queued = <<BotInterruptionFrame, BotInterruptionFrame, EndFrame>>
    /\ pipeline = "ended"

\* C23: a failed injection is final: no exception leaves the transport's
\* callback; a notification whose interruption failed gets no grace timer,
\* then or later; a timer whose injection failed stays failed; and frames
\* enter the queue only with a new notification or with a timer firing for
\* the first time, so nothing is injected again.
C23_FailureIsTerminalAndSilent ==
    [][ /\ ~escaped'
        /\ ( /\ ntimeouts' = ntimeouts + 1
             /\ queued' = queued ) => end_call' = end_call
        /\ \A n \in Timeouts :
             /\ n <= ntimeouts /\ end_call[n] = "none"
                  => end_call'[n] = "none"
             /\ end_call[n] = "failed" => end_call'[n] = "failed"
        /\ queued' # queued
             => \/ ntimeouts' = ntimeouts + 1
                \/ \E n \in Timeouts :
                     /\ Sleeping(n)
                     /\ end_call'[n] \in {"done", "failed"}
                     /\ \A m \in Timeouts \ {n} : end_call'[m] = end_call[m]
      ]_vars

\* The first notification failed to inject its interruption, the second
\* one's timer failed to inject the end signal, and time went on.
C23_Witness ==
    /\ ntimeouts = 2
    /\ end_call[1] = "none"
    /\ end_call[2] = "failed"
    /\ queued = <<BotInterruptionFrame, BotInterruptionFrame>>
    /\ consumed = 2
    /\ ~escaped

EndFrames(q) == Cardinality({i \in DOMAIN q : q[i] = EndFrame})

\* C24: once the session is ending or has ended (an end signal is in the
\* queue, or the pipeline has stopped), a grace timer that is still pending
\* is cancelled: no step injects a session-end signal any more.
C24_NoEndAfterSessionEnded ==
    [][(pipeline # "running" \/ EndInjected)
         => EndFrames(queued') = EndFrames(queued)]_vars

\* C25: every id of the active-process table has a log record.
C25_TrackedHaveLogRecords == active_processes \subseteq DOMAIN process_logs

\* A Stop has removed one worker and kept its record; another one is
\* tracked.
C25_Witness ==
    /\ Responded("stop")
    /\ resp.success
    /\ active_processes # {}
    /\ req.pid \in DOMAIN process_logs \ active_processes

\* A step of _stop_bot itself on the tracked id pid, without force_port:
\* the part up to the response or the wait, or the return of the wait; not
\* one that ends in an error response.
StopStepOn(pid) ==
    /\ \/ /\ pc = "idle"
          /\ req'.op = "stop"
          /\ req'.force_port = NoPort
          /\ req'.pid = pid
       \/ /\ pc = "stop_wait"
          /\ pc' = "respond"
          /\ req.pid = pid
    /\ pid \in active_processes
    /\ pc' = "respond" => resp'.success

\* C26: a Stop on a tracked id that reports success takes that id, and
\* only that id, out of the table; it signals no other process, leaves
\* every other tracked worker as it is, and leaves the log table, the
\* record of the stopped id included, as it is.
C26_StopTouchesOnlyItsTarget ==
    [][\A pid \in Pids :
         StopStepOn(pid)
           => /\ pc' = "respond"
                   => active_processes' = active_processes \ {pid}
              /\ pc' # "respond" => active_processes' = active_processes
              /\ \A i \in DOMAIN sent' : sent'[i][1] = pid
              /\ \A q \in Pids \ {pid} : proc'[q] = proc[q]
              /\ process_logs' = process_logs]_vars

\* A Stop has answered with success while another tracked worker runs.
C26_Witness ==
    /\ Responded("stop")
    /\ resp.success
    /\ req.force_port = NoPort
    /\ req.pid \in Pids \ active_processes
    /\ Signalled = {req.pid}
    /\ \E q \in active_processes : Alive(q)

====
